---- MODULE Spec2Model ----
(***************************************************************************)
(* A model of the agentic_rag operator console: the Oracle vector-store   *)
(* manager (src/OraDBVectorStore.py) and the menu CLI (agent_cli.py).      *)
(*                                                                         *)
(* Three specifications share one set of variables:                        *)
(*   CtorSpec  the constructor OraDBVectorStore.__init__ over every        *)
(*             modelled content of config.yaml;                            *)
(*   Spec      the operations of a constructed store over the four tables; *)
(*   CliSpec   the menu loop of agent_cli.py and run_command.              *)
(***************************************************************************)
EXTENDS Integers, Sequences, FiniteSets, TLC

VARIABLES
    configFile,     \* what config.yaml holds when the constructor runs
    phase,          \* "new" | "constructed" | "failed": the store object
    connectLog,     \* the oracledb.connect calls made so far, in order
    connection,     \* self.connection: "none" | "open"
    embeddings,     \* self.embeddings: "none" | "custom" | "oracle"
    collections,    \* self.collections: collection name -> table name
    vector_stores,  \* self.vector_stores: collection name -> OracleVS handle
    tables,         \* the database: table name -> rows, in insertion order
    nextId,         \* the next row id the vector store generates
    lastCall,       \* the last call made on the store, its arguments and result
    cliPc,          \* agent_cli.py: "main" | "rag" | "exited" | "crashed"
    cliLast,        \* agent_cli.py: the last menu visit and what it ran
    mainRun         \* OraDBVectorStore.py main(): its arguments, position and output

storeVars == <<configFile, phase, connectLog, connection, embeddings,
               collections, vector_stores, tables, nextId, lastCall>>
cliVars == <<cliPc, cliLast>>
vars == <<configFile, phase, connectLog, connection, embeddings,
          collections, vector_stores, tables, nextId, lastCall, cliPc, cliLast,
          mainRun>>

-----------------------------------------------------------------------------
(* Bounds of the model. *)

MaxIds == 2         \* rows inserted over a whole behaviour

-----------------------------------------------------------------------------
(* Text the CLI reads and prints: a sequence of plain pieces and of rich   *)
(* console markup tags, "[name]" opening and "[/name]" closing a style.    *)

Txt(s) == [k |-> "text", v |-> s]
OpenTag(name) == [k |-> "open", v |-> name]
CloseTag(name) == [k |-> "close", v |-> name]

NoText == <<>>

\* The outcome of subprocess.run: the launch raises, or the process runs and
\* exits with a return code, its stdout and its stderr.
NoProc == [kind |-> "none"]

\* What run_command did: whether it raised, what it returned, how many times
\* it called subprocess.run and whether a process was started.
NoRun == [called |-> FALSE, raised |-> "none", ret |-> "none", attempts |-> 0,
          started |-> FALSE]

\* One visit of a menu: the option chosen, the path, URL or query entered,
\* what the path check found, the command and process, and how the visit ended.
Visit(menu, choice, input, checked, command, proc, run, crashed) ==
    [menu |-> menu, choice |-> choice, input |-> input, checked |-> checked,
     command |-> command, proc |-> proc, run |-> run, crashed |-> crashed]

NoVisit == Visit("none", "", NoText, "none", <<>>, NoProc, NoRun, FALSE)

\* The CLI before main_menu() starts its loop.
CliIdle == cliPc = "main" /\ cliLast = NoVisit

-----------------------------------------------------------------------------
(* Python values, tagged with their type. *)

PyStr(s) == [type |-> "str", s |-> s]
PyInt(i) == [type |-> "int", i |-> i]
PyFloat(f) == [type |-> "float", f |-> f]       \* f: the float's repr
PyBool(b) == [type |-> "bool", b |-> b]
PyList(items) == [type |-> "list", items |-> items]
PyTuple(items) == [type |-> "tuple", items |-> items]
PyDict(d) == [type |-> "dict", d |-> d]
PyNone == [type |-> "NoneType"]

\* bool(value): Python truthiness of the values the model uses.
Truthy(v) ==
    CASE v.type = "NoneType" -> FALSE
      [] v.type = "str" -> v.s # ""
      [] v.type = "int" -> v.i # 0
      [] v.type = "bool" -> v.b
      [] v.type \in {"list", "tuple"} -> v.items # <<>>
      [] v.type = "dict" -> DOMAIN v.d # {}
      [] OTHER -> TRUE

RECURSIVE PyRepr(_)
RECURSIVE JoinRepr(_)

\* ", ".join(repr(x) for x in items)
JoinRepr(items) ==
    IF items = <<>> THEN ""
    ELSE IF Len(items) = 1 THEN PyRepr(items[1])
    ELSE PyRepr(items[1]) \o ", " \o JoinRepr(Tail(items))

\* repr(value)
PyRepr(v) ==
    CASE v.type = "str" -> "'" \o v.s \o "'"
      [] v.type = "int" -> ToString(v.i)
      [] v.type = "float" -> v.f
      [] v.type = "bool" -> IF v.b THEN "True" ELSE "False"
      [] v.type = "NoneType" -> "None"
      [] v.type = "list" -> "[" \o JoinRepr(v.items) \o "]"
      [] v.type = "tuple" ->
            IF Len(v.items) = 1 THEN "(" \o PyRepr(v.items[1]) \o ",)"
            ELSE "(" \o JoinRepr(v.items) \o ")"

\* str(value): the string itself for a str, repr(value) for the other types.
PyToStr(v) == IF v.type = "str" THEN v.s ELSE PyRepr(v)

\* dict.get(key, default)
Get(d, key, default) == IF key \in DOMAIN d THEN d[key] ELSE default

-----------------------------------------------------------------------------
(* OraDBVectorStore._sanitize_metadata *)

ScalarTypes == {"str", "int", "float", "bool"}

\* A variant that lacks the None branch: None falls through to str(value).
sanitize_metadata_no_none_branch(metadata) ==
    [key \in DOMAIN metadata |->
        LET value == metadata[key] IN
        IF value.type \in ScalarTypes THEN value
        ELSE PyStr(PyToStr(value))]

sanitize_metadata(metadata) ==
    [key \in DOMAIN metadata |->
        LET value == metadata[key] IN
        IF value.type \in ScalarTypes THEN value
        ELSE IF value.type = "list" THEN PyStr(PyToStr(value))
        ELSE IF value.type = "NoneType" THEN PyStr("")
        ELSE PyStr(PyToStr(value))]

-----------------------------------------------------------------------------
(* The collections and their tables. *)

\* A variant with a copied table name: two collections share one table.
CollectionsMapSharedTable ==
    [pdf_documents |-> "PDFCollection",
     web_documents |-> "PDFCollection",
     repository_documents |-> "RepoCollection",
     general_knowledge |-> "GeneralCollection"]

CollectionsMap ==
    [pdf_documents |-> "PDFCollection",
     web_documents |-> "WebCollection",
     repository_documents |-> "RepoCollection",
     general_knowledge |-> "GeneralCollection"]

\* OracleVS(client, embedding_function, table_name, distance_strategy)
OracleVS(client, embedding_function, table_name) ==
    [client |-> client, embedding_function |-> embedding_function,
     table_name |-> table_name, distance_strategy |-> "EUCLIDEAN_DISTANCE"]

EmptyMap == [k \in {} |-> k]

CollectionNames == DOMAIN CollectionsMap
TableNames == {CollectionsMap[c] : c \in CollectionNames}

\* The order in which the constructor's loop visits self.collections
\* (a dict keeps insertion order).
CollectionOrder ==
    <<"pdf_documents", "web_documents", "repository_documents", "general_knowledge">>

-----------------------------------------------------------------------------
(* The record of a call: which method, its arguments, what it raised and  *)
(* what it returned.                                                       *)

NoIds == [given |-> FALSE, ids |-> {}]
NoRet == [kind |-> "none"]

Call(op, collection_name, chunks, ids, delete_all, raised, ret) ==
    [op |-> op, collection_name |-> collection_name, chunks |-> chunks,
     ids |-> ids, delete_all |-> delete_all, raised |-> raised, ret |-> ret]

NoCall == Call("none", "", <<>>, NoIds, FALSE, "none", NoRet)

(* main() of OraDBVectorStore.py: an argument that was not given, the run  *)
(* of main() with its arguments, the steps it began (in order), the        *)
(* exception it caught and what it printed.                                 *)

NoArg == [given |-> FALSE]

MainRun(pc, add, add_web, query, steps, error, stdout, pdf_results) ==
    [pc |-> pc, add |-> add, add_web |-> add_web, query |-> query,
     steps |-> steps, error |-> error, stdout |-> stdout, pdf_results |-> pdf_results]

\* main() was not started.
MainIdle == mainRun = MainRun("idle", NoArg, NoArg, FALSE, <<>>, "none", NoText, <<>>)

-----------------------------------------------------------------------------
(* config.yaml and OraDBVectorStore._load_config *)

ConfigKeys ==
    {"ORACLE_DB_PASSWORD", "ORACLE_DB_DSN", "ORACLE_DB_WALLET_LOCATION",
     "ORACLE_DB_WALLET_PASSWORD"}

\* The value a key holds in the file: an empty string or a usable one.
ConfigValue(key, set) ==
    IF ~set THEN PyStr("")
    ELSE CASE key = "ORACLE_DB_PASSWORD" -> PyStr("secret")
           [] key = "ORACLE_DB_DSN" -> PyStr("db_high")
           [] key = "ORACLE_DB_WALLET_LOCATION" -> PyStr("/wallet")
           [] key = "ORACLE_DB_WALLET_PASSWORD" -> PyStr("wsecret")

\* Every mapping over a subset of the keys.
ConfigDicts ==
    {[k \in K |-> ConfigValue(k, f[k])] : K \in SUBSET ConfigKeys, f \in [ConfigKeys -> BOOLEAN]}

FileMissing == [kind |-> "missing"]
FileUnreadable == [kind |-> "unreadable"]       \* open() or yaml.safe_load raises
FileDocument(doc) == [kind |-> "document", doc |-> doc]     \* yaml.safe_load's value

\* config.yaml as the constructor may find it: absent, unreadable, empty
\* (safe_load gives None), a YAML sequence, or a YAML mapping.
ConfigFiles ==
    {FileMissing, FileUnreadable, FileDocument(PyNone),
     FileDocument(PyList(<<PyStr("ORACLE_DB_PASSWORD")>>))}
    \cup {FileDocument(PyDict(d)) : d \in ConfigDicts}

load_config(file) ==
    IF file.kind = "missing" THEN PyDict(EmptyMap)
    ELSE IF file.kind = "unreadable" THEN PyDict(EmptyMap)
    ELSE IF Truthy(file.doc) THEN file.doc ELSE PyDict(EmptyMap)

-----------------------------------------------------------------------------
(* OraDBVectorStore.__init__ *)

\* A variant with the wallet test inverted.
ConnectArgsInverted(username, password, dsn, wallet_path, wallet_password) ==
    IF Truthy(wallet_path)
    THEN [wallet |-> FALSE, user |-> username, password |-> password, dsn |-> dsn]
    ELSE [wallet |-> TRUE, user |-> username, password |-> password, dsn |-> dsn,
          config_dir |-> wallet_path, wallet_location |-> wallet_path,
          wallet_password |-> wallet_password]

\* The keyword arguments of the one oracledb.connect call the constructor makes.
ConnectArgs(username, password, dsn, wallet_path, wallet_password) ==
    IF ~Truthy(wallet_path)
    THEN [wallet |-> FALSE, user |-> username, password |-> password, dsn |-> dsn]
    ELSE [wallet |-> TRUE, user |-> username, password |-> password, dsn |-> dsn,
          config_dir |-> wallet_path, wallet_location |-> wallet_path,
          wallet_password |-> wallet_password]

\* The object a failed constructor leaves: no attribute was set after `attempts`.
FailedStore(attempts, conn, raised) ==
    [phase |-> "failed", connectLog |-> attempts, connection |-> conn,
     embeddings |-> "none", collections |-> EmptyMap, vector_stores |-> EmptyMap,
     raised |-> raised]

\* The constructor, given the file, the embedding_function argument, whether
\* oracledb.connect succeeds and whether OracleEmbeddings(...) succeeds.
Construct(file, embedding_function, connectOk, embedOk) ==
    LET credentials == load_config(file) IN
    IF credentials.type # "dict"
    THEN FailedStore(<<>>, "none", "AttributeError")    \* credentials.get
    ELSE
    LET d == credentials.d
        username == Get(d, "ORACLE_DB_USERNAME", PyStr("ADMIN"))
        password == Get(d, "ORACLE_DB_PASSWORD", PyStr(""))
        dsn == Get(d, "ORACLE_DB_DSN", PyStr(""))
        wallet_path == Get(d, "ORACLE_DB_WALLET_LOCATION", PyNone)
        wallet_password == Get(d, "ORACLE_DB_WALLET_PASSWORD", PyNone)
        attempt == ConnectArgs(username, password, dsn, wallet_path, wallet_password)
    IN
    IF ~Truthy(password) \/ ~Truthy(dsn)
    THEN FailedStore(<<>>, "none", "ValueError")
    ELSE IF ~connectOk
    THEN FailedStore(<<attempt>>, "none", "DatabaseError")
    ELSE IF ~embedding_function /\ ~embedOk
    THEN FailedStore(<<attempt>>, "open", "EmbeddingsError")
    ELSE
    LET emb == IF embedding_function THEN "custom" ELSE "oracle" IN
    [phase |-> "constructed", connectLog |-> <<attempt>>, connection |-> "open",
     embeddings |-> emb, collections |-> CollectionsMap,
     vector_stores |->
        [name \in DOMAIN CollectionsMap |->
            [obj |-> CHOOSE i \in 1..Len(CollectionOrder) : CollectionOrder[i] = name,
             handle |-> OracleVS("open", emb, CollectionsMap[name])]],
     raised |-> "none"]

\* The constructor as an action on a store that was not yet built.
Init__(embedding_function, connectOk, embedOk) ==
    LET r == Construct(configFile, embedding_function, connectOk, embedOk) IN
    /\ phase = "new"
    /\ phase' = r.phase
    /\ connectLog' = connectLog \o r.connectLog
    /\ connection' = r.connection
    /\ embeddings' = r.embeddings
    /\ collections' = r.collections
    /\ vector_stores' = r.vector_stores
    /\ lastCall' = Call("__init__", "", <<>>, NoIds, FALSE, r.raised, NoRet)
    /\ UNCHANGED <<configFile, tables, nextId, cliPc, cliLast>>

CtorInit ==
    /\ configFile \in ConfigFiles
    /\ phase = "new"
    /\ connectLog = <<>>
    /\ connection = "none"
    /\ embeddings = "none"
    /\ collections = EmptyMap
    /\ vector_stores = EmptyMap
    /\ tables = [t \in TableNames |-> <<>>]
    /\ nextId = 1
    /\ lastCall = NoCall
    /\ CliIdle
    /\ MainIdle

CtorNext ==
    \E embedding_function \in BOOLEAN, connectOk \in BOOLEAN, embedOk \in BOOLEAN :
        Init__(embedding_function, connectOk, embedOk) /\ UNCHANGED mainRun

CtorSpec == CtorInit /\ [][CtorNext]_vars

-----------------------------------------------------------------------------
(* Chunks, as the ingestion scripts produce them. *)

Chunk1 ==
    [text |-> "alpha",
     metadata |-> [source |-> PyStr("a.pdf"), page |-> PyInt(1),
                   score |-> PyFloat("0.5"), ok |-> PyBool(TRUE)]]
Chunk2 ==
    [text |-> "beta",
     metadata |-> [page_numbers |-> PyList(<<PyInt(1), PyInt(2)>>),
                   title |-> PyNone, span |-> PyTuple(<<PyInt(3)>>),
                   tags |-> PyList(<<PyStr("x")>>)]]

Chunks == {Chunk1, Chunk2}

\* Every chunk list that the ids of the model can hold.
ChunkLists == UNION {[1..n -> Chunks] : n \in 0..MaxIds}

RowIds == 1..MaxIds

\* The ids argument of delete_documents: None, or a list of ids.
IdArgs == {NoIds} \cup {[given |-> TRUE, ids |-> S] : S \in SUBSET RowIds}

\* The (ids, delete_all) arguments of delete_documents: every ids with
\* delete_all=False; None and one id list with delete_all=True.
DeleteArgs ==
    {<<ids, FALSE>> : ids \in IdArgs}
    \cup {<<ids, TRUE>> : ids \in {NoIds, [given |-> TRUE, ids |-> {MaxIds}]}}

\* Collection names a caller may pass: the four known ones and an unknown one.
NameArgs == CollectionNames \cup {"unknown_collection"}

-----------------------------------------------------------------------------
(* The vector-store handle's operations on its table. *)

\* OracleVS.add_texts(texts, metadatas): one row per text, in order, each
\* under a fresh id.
AddTexts(rows, texts, metadatas, firstId) ==
    rows \o [i \in 1..Len(texts) |->
                [id |-> firstId + i - 1, text |-> texts[i], metadata |-> metadatas[i]]]

\* OracleVS.delete(ids): the rows whose id is listed are removed.
DeleteIds(rows, ids) == SelectSeq(rows, LAMBDA r : r.id \notin ids)

\* TRUNCATE TABLE
Truncate(rows) == <<>>

\* Document -> {"content", "metadata"}
FormatResult(row) == [content |-> row.text, metadata |-> row.metadata]

\* OracleVS.similarity_search(query, k): the k nearest rows, nearest first.
\* The embedding decides the ranking; every ranking is possible.
SearchResults(rows, k) ==
    LET n == IF Len(rows) < k THEN Len(rows) ELSE k IN
    {[i \in 1..n |-> rows[p[i]]] :
        p \in {q \in [1..n -> 1..Len(rows)] : \A i, j \in 1..n : i # j => q[i] # q[j]}}

\* SELECT text, metadata FROM t WHERE ROWNUM <= 1: with no ORDER BY the
\* database may return any one row of the table.
FirstRowChoices(rows) == {rows[i] : i \in 1..Len(rows)}

-----------------------------------------------------------------------------
(* OraDBVectorStore: the operations of a constructed store. *)

\* A variant in which add_web_chunks was copied from add_pdf_chunks unchanged.
AddTargetCopied(op) ==
    CASE op = "add_pdf_chunks" -> "pdf_documents"
      [] op = "add_web_chunks" -> "pdf_documents"
      [] op = "add_general_knowledge" -> "general_knowledge"
      [] op = "add_repo_chunks" -> "repository_documents"

\* The collection each public add method targets.
AddTarget(op) ==
    CASE op = "add_pdf_chunks" -> "pdf_documents"
      [] op = "add_web_chunks" -> "web_documents"
      [] op = "add_general_knowledge" -> "general_knowledge"
      [] op = "add_repo_chunks" -> "repository_documents"

\* The collection each public query method targets.
QueryTarget(op) ==
    CASE op = "query_pdf_collection" -> "pdf_documents"
      [] op = "query_web_collection" -> "web_documents"
      [] op = "query_general_collection" -> "general_knowledge"
      [] op = "query_repo_collection" -> "repository_documents"

AddOps == {"add_pdf_chunks", "add_web_chunks", "add_general_knowledge", "add_repo_chunks"}
QueryOps == {"query_pdf_collection", "query_web_collection",
             "query_general_collection", "query_repo_collection"}

\* A variant that pairs every text with the metadata of the first chunk.
ChunkMetadatasFirstOnly(chunks) ==
    [i \in 1..Len(chunks) |-> sanitize_metadata(chunks[1].metadata)]

\* texts = [chunk["text"] for chunk in chunks]
ChunkTexts(chunks) == [i \in 1..Len(chunks) |-> chunks[i].text]

\* metadatas = [self._sanitize_metadata(chunk["metadata"]) for chunk in chunks]
ChunkMetadatas(chunks) ==
    [i \in 1..Len(chunks) |-> sanitize_metadata(chunks[i].metadata)]

\* A variant that tests ids before delete_all.
DeleteModeIdsFirst(ids, delete_all) ==
    IF ids.given /\ ids.ids # {} THEN "ids"
    ELSE IF delete_all THEN "truncate"
    ELSE "nothing"

\* Which branch of delete_documents runs: `if delete_all: ... elif ids: ...`.
DeleteMode(ids, delete_all) ==
    IF delete_all THEN "truncate"
    ELSE IF ids.given /\ ids.ids # {} THEN "ids"
    ELSE "nothing"

\* vector_stores.get(name) / collections.get(name): None when absent.
Known(map, name) == name \in DOMAIN map

\* A variant that looks the collection up before it tests for an empty list.
add_chunks_to_collection_lookup_first(op, chunks, collection_name) ==
    /\ phase = "constructed"
    /\ nextId + Len(chunks) - 1 <= MaxIds
    /\ IF ~Known(vector_stores, collection_name)
       THEN /\ lastCall' = Call(op, collection_name, chunks, NoIds, FALSE, "ValueError", NoRet)
            /\ UNCHANGED <<tables, nextId>>
       ELSE IF chunks = <<>>
       THEN /\ lastCall' = Call(op, collection_name, chunks, NoIds, FALSE, "none", NoRet)
            /\ UNCHANGED <<tables, nextId>>
       ELSE
       /\ tables' = [tables EXCEPT ![vector_stores[collection_name].handle.table_name] =
                       AddTexts(@, ChunkTexts(chunks), ChunkMetadatas(chunks), nextId)]
       /\ nextId' = nextId + Len(chunks)
       /\ lastCall' = Call(op, collection_name, chunks, NoIds, FALSE, "none", NoRet)
    /\ UNCHANGED <<configFile, phase, connectLog, connection, embeddings,
                   collections, vector_stores, cliPc, cliLast>>

\* _add_chunks_to_collection(chunks, collection_name), called as `op`.
add_chunks_to_collection(op, chunks, collection_name) ==
    /\ phase = "constructed"
    /\ nextId + Len(chunks) - 1 <= MaxIds
    /\ IF chunks = <<>>
       THEN /\ lastCall' = Call(op, collection_name, chunks, NoIds, FALSE, "none", NoRet)
            /\ UNCHANGED <<tables, nextId>>
       ELSE IF ~Known(vector_stores, collection_name)
       THEN /\ lastCall' = Call(op, collection_name, chunks, NoIds, FALSE, "ValueError", NoRet)
            /\ UNCHANGED <<tables, nextId>>
       ELSE
       LET store == vector_stores[collection_name].handle
           texts == ChunkTexts(chunks)
           metadatas == ChunkMetadatas(chunks)
       IN
       /\ tables' = [tables EXCEPT ![store.table_name] =
                       AddTexts(@, texts, metadatas, nextId)]
       /\ nextId' = nextId + Len(chunks)
       /\ lastCall' = Call(op, collection_name, chunks, NoIds, FALSE, "none", NoRet)
    /\ UNCHANGED <<configFile, phase, connectLog, connection, embeddings,
                   collections, vector_stores, cliPc, cliLast>>

add_pdf_chunks(chunks) ==
    add_chunks_to_collection("add_pdf_chunks", chunks, AddTarget("add_pdf_chunks"))
add_web_chunks(chunks) ==
    add_chunks_to_collection("add_web_chunks", chunks, AddTarget("add_web_chunks"))
add_general_knowledge(chunks) ==
    add_chunks_to_collection("add_general_knowledge", chunks, AddTarget("add_general_knowledge"))
add_repo_chunks(chunks) ==
    add_chunks_to_collection("add_repo_chunks", chunks, AddTarget("add_repo_chunks"))

\* _query_collection(collection_name, query, n_results), called as `op`.
query_collection(op, collection_name, n_results) ==
    /\ phase = "constructed"
    /\ IF ~Known(vector_stores, collection_name)
       THEN lastCall' = Call(op, collection_name, <<>>, NoIds, FALSE, "none",
                             [kind |-> "list", items |-> <<>>])
       ELSE \E docs \in SearchResults(tables[vector_stores[collection_name].handle.table_name],
                                       n_results) :
                lastCall' = Call(op, collection_name, <<>>, NoIds, FALSE, "none",
                                 [kind |-> "list",
                                  items |-> [i \in 1..Len(docs) |-> FormatResult(docs[i])]])
    /\ UNCHANGED <<configFile, phase, connectLog, connection, embeddings,
                   collections, vector_stores, tables, nextId, cliPc, cliLast>>

query_public(op, n_results) == query_collection(op, QueryTarget(op), n_results)

\* delete_documents(collection_name, ids, delete_all)
delete_documents(collection_name, ids, delete_all) ==
    /\ phase = "constructed"
    /\ IF ~Known(vector_stores, collection_name)
       THEN /\ lastCall' = Call("delete_documents", collection_name, <<>>, ids, delete_all,
                                 "ValueError", NoRet)
            /\ UNCHANGED tables
       ELSE IF DeleteMode(ids, delete_all) = "truncate"
       THEN IF Known(collections, collection_name)
            THEN /\ tables' = [tables EXCEPT ![collections[collection_name]] = Truncate(@)]
                 /\ lastCall' = Call("delete_documents", collection_name, <<>>, ids,
                                      delete_all, "none", NoRet)
            ELSE /\ lastCall' = Call("delete_documents", collection_name, <<>>, ids,
                                      delete_all, "none", NoRet)
                 /\ UNCHANGED tables
       ELSE IF DeleteMode(ids, delete_all) = "ids"
       THEN /\ tables' = [tables EXCEPT
                            ![vector_stores[collection_name].handle.table_name] =
                                DeleteIds(@, ids.ids)]
            /\ lastCall' = Call("delete_documents", collection_name, <<>>, ids,
                                 delete_all, "none", NoRet)
       ELSE /\ lastCall' = Call("delete_documents", collection_name, <<>>, ids, delete_all,
                                 "none", NoRet)
            /\ UNCHANGED tables
    /\ UNCHANGED <<configFile, phase, connectLog, connection, embeddings,
                   collections, vector_stores, nextId, cliPc, cliLast>>

\* What became of the SQL statement of a count: not issued, raised, or answered.
CountQuery(collection_name, queryOk) ==
    IF ~Known(collections, collection_name) THEN "skipped"
    ELSE IF ~queryOk THEN "failed"
    ELSE "ok"

\* A variant without the try/except around the count query.
get_collection_count_no_except(collection_name, queryOk) ==
    /\ phase = "constructed"
    /\ lastCall' =
         IF CountQuery(collection_name, queryOk) = "failed"
         THEN Call("get_collection_count", collection_name, <<>>, NoIds, FALSE,
                   "DatabaseError", NoRet)
         ELSE Call("get_collection_count", collection_name, <<>>, NoIds, FALSE, "none",
                   [kind |-> "int",
                    query |-> CountQuery(collection_name, queryOk),
                    n |-> IF ~Known(collections, collection_name) THEN 0
                          ELSE Len(tables[collections[collection_name]])])
    /\ UNCHANGED <<configFile, phase, connectLog, connection, embeddings,
                   collections, vector_stores, tables, nextId, cliPc, cliLast>>

\* get_collection_count(collection_name); queryOk: whether the SQL succeeds.
\* The returned record also notes what became of the SQL statement.
get_collection_count(collection_name, queryOk) ==
    /\ phase = "constructed"
    /\ lastCall' = Call("get_collection_count", collection_name, <<>>, NoIds, FALSE, "none",
            [kind |-> "int",
             query |-> CountQuery(collection_name, queryOk),
             n |-> IF ~Known(collections, collection_name) THEN 0
                   ELSE IF ~queryOk THEN 0
                   ELSE Len(tables[collections[collection_name]])])
    /\ UNCHANGED <<configFile, phase, connectLog, connection, embeddings,
                   collections, vector_stores, tables, nextId, cliPc, cliLast>>

\* get_latest_chunk(collection_name); queryOk: whether the SQL succeeds.
get_latest_chunk(collection_name, queryOk) ==
    /\ phase = "constructed"
    /\ IF \/ ~Known(collections, collection_name)
          \/ ~queryOk
          \/ tables[collections[collection_name]] = <<>>
       THEN lastCall' = Call("get_latest_chunk", collection_name, <<>>, NoIds, FALSE, "none",
                             [kind |-> "empty_dict"])
       ELSE \E row \in FirstRowChoices(tables[collections[collection_name]]) :
                lastCall' = Call("get_latest_chunk", collection_name, <<>>, NoIds, FALSE, "none",
                                 [kind |-> "dict", content |-> row.text,
                                  metadata |-> row.metadata])
    /\ UNCHANGED <<configFile, phase, connectLog, connection, embeddings,
                   collections, vector_stores, tables, nextId, cliPc, cliLast>>

-----------------------------------------------------------------------------
(* The store: construction from a complete config.yaml, then any calls. *)

DefaultConfigFile == FileDocument(PyDict([k \in ConfigKeys |-> ConfigValue(k, TRUE)]))

Init ==
    /\ configFile = DefaultConfigFile
    /\ phase = "new"
    /\ connectLog = <<>>
    /\ connection = "none"
    /\ embeddings = "none"
    /\ collections = EmptyMap
    /\ vector_stores = EmptyMap
    /\ tables = [t \in TableNames |-> <<>>]
    /\ nextId = 1
    /\ lastCall = NoCall
    /\ CliIdle
    /\ MainIdle

NResults == {1, 3}

Next ==
    \/ \E connectOk \in BOOLEAN : Init__(FALSE, connectOk, TRUE) /\ UNCHANGED mainRun
    \/ \E chunks \in ChunkLists : add_pdf_chunks(chunks) /\ UNCHANGED mainRun
    \/ \E chunks \in ChunkLists : add_web_chunks(chunks) /\ UNCHANGED mainRun
    \/ \E chunks \in ChunkLists : add_general_knowledge(chunks) /\ UNCHANGED mainRun
    \/ \E chunks \in ChunkLists : add_repo_chunks(chunks) /\ UNCHANGED mainRun
    \/ \E op \in QueryOps, n \in NResults : query_public(op, n) /\ UNCHANGED mainRun
    \/ \E name \in NameArgs, args \in DeleteArgs :
            delete_documents(name, args[1], args[2]) /\ UNCHANGED mainRun
    \/ \E name \in NameArgs, queryOk \in BOOLEAN : get_collection_count(name, queryOk) /\ UNCHANGED mainRun
    \/ \E name \in NameArgs, queryOk \in BOOLEAN : get_latest_chunk(name, queryOk) /\ UNCHANGED mainRun

Spec == Init /\ [][Next]_vars

-----------------------------------------------------------------------------
(* The store with its two helpers called directly as well, under any       *)
(* collection name.                                                         *)

call_add_chunks_to_collection(chunks, collection_name) ==
    add_chunks_to_collection("_add_chunks_to_collection", chunks, collection_name)

call_query_collection(collection_name, n_results) ==
    query_collection("_query_collection", collection_name, n_results)

HelperNext ==
    \/ Next
    \/ \E chunks \in ChunkLists, name \in NameArgs :
            call_add_chunks_to_collection(chunks, name) /\ UNCHANGED mainRun
    \/ \E name \in NameArgs, n \in NResults : call_query_collection(name, n) /\ UNCHANGED mainRun

HelperSpec == Init /\ [][HelperNext]_vars

-----------------------------------------------------------------------------
(* agent_cli.py: what the rich console does with the text it is given.     *)

RECURSIVE MarkupScan(_, _)

\* rich renders markup left to right with a stack of open styles; a closing
\* tag must match an open one, or console.print raises MarkupError.
MarkupScan(tokens, stack) ==
    IF tokens = <<>> THEN [ok |-> TRUE, tag |-> ""]
    ELSE LET t == Head(tokens) IN
         IF t.k = "text" THEN MarkupScan(Tail(tokens), stack)
         ELSE IF t.k = "open" THEN MarkupScan(Tail(tokens), Append(stack, t.v))
         ELSE IF \E i \in 1..Len(stack) : stack[i] = t.v
         THEN LET last == CHOOSE i \in 1..Len(stack) :
                            /\ stack[i] = t.v
                            /\ \A j \in (i + 1)..Len(stack) : stack[j] # t.v
              IN MarkupScan(Tail(tokens),
                            SubSeq(stack, 1, last - 1) \o SubSeq(stack, last + 1, Len(stack)))
         ELSE [ok |-> FALSE, tag |-> t.v]

\* console.print(text) returns normally.
MarkupOk(text) == MarkupScan(text, <<>>).ok

\* str(e) of the MarkupError that printing `text` raises: it quotes the tag.
MarkupErrorText(text) ==
    <<Txt("closing tag '"), CloseTag(MarkupScan(text, <<>>).tag),
      Txt("' at position N doesn't match any open tag")>>

RECURSIVE JoinCommand(_)

\* ' '.join(command)
JoinCommand(command) ==
    IF command = <<>> THEN <<>>
    ELSE IF Len(command) = 1 THEN command[1]
    ELSE command[1] \o <<Txt(" ")>> \o JoinCommand(Tail(command))

\* f"[bold green]Running command:[/bold green] {' '.join(command)}"
RunningLine(command) ==
    <<OpenTag("bold green"), Txt("Running command:"), CloseTag("bold green"), Txt(" ")>>
    \o JoinCommand(command)

\* f"[bold red]Exception occurred:[/bold red] {str(e)}"
ExceptionLine(message) ==
    <<OpenTag("bold red"), Txt("Exception occurred:"), CloseTag("bold red"), Txt(" ")>>
    \o message

\* f"[red]File not found: {input_path}[/red]", f"[red]Directory not found: ...[/red]"
NotFoundLine(what, path) ==
    <<OpenTag("red"), Txt(what)>> \o path \o <<CloseTag("red")>>

-----------------------------------------------------------------------------
(* agent_cli.py: the file system, the user's input and the subprocesses.   *)

Word(s) == <<Txt(s)>>

ExistingFiles == {Word("chunks.json"), <<Txt("notes"), CloseTag("b"), Txt(".json")>>}
ExistingDirs == {Word("docs")}
MissingPaths == {Word("missing.pdf"), <<Txt("missing"), CloseTag("b"), Txt(".pdf")>>}

\* os.path.exists, os.path.isdir
PathExists(path) == path \in ExistingFiles \cup ExistingDirs
IsDir(path) == path \in ExistingDirs

\* URLs and queries the user may type.
FreeTexts == {Word("https://example.com/a.pdf"), <<Txt("summarise "), CloseTag("INST")>>}

\* query.lower()
Lower(text) == IF text = Word("EXIT") THEN Word("exit") ELSE text

\* What the user may type at a path, URL or query prompt of a menu, and at
\* the agent's query prompt.
Inputs == ExistingFiles \cup ExistingDirs \cup MissingPaths \cup FreeTexts
QueryInputs == FreeTexts \cup {Word("EXIT"), Word("quit"), Word("0")}

\* What a subprocess may print.
Outputs == {NoText, Word("done"), <<Txt("Content: "), CloseTag("INST"), Txt("...")>>}

\* subprocess.run: the launch raises (no such program), or the process runs.
Procs ==
    {[kind |-> "raises", message |-> Word("[Errno 2] No such file or directory: 'python'")]}
    \cup {[kind |-> "exit", rc |-> 0, stdout |-> out, stderr |-> NoText] :
            out \in Outputs}
    \cup {[kind |-> "exit", rc |-> 1, stdout |-> out, stderr |-> err] :
            out \in {NoText, Word("done")}, err \in Outputs}

-----------------------------------------------------------------------------
(* agent_cli.py: run_command *)

\* The panels run_command prints after the process has exited, in order.
Panels(proc) ==
    IF proc.rc = 0
    THEN IF proc.stdout # NoText THEN <<proc.stdout>> ELSE <<>>
    ELSE (IF proc.stderr # NoText THEN <<proc.stderr>> ELSE <<>>)
         \o (IF proc.stdout # NoText THEN <<proc.stdout>> ELSE <<>>)

\* `except Exception as e:` prints the message and returns False, unless
\* printing the message raises in turn.
ExceptHandler(message, started) ==
    IF MarkupOk(ExceptionLine(message))
    THEN [called |-> TRUE, raised |-> "none", ret |-> "False", attempts |-> 1,
          started |-> started]
    ELSE [called |-> TRUE, raised |-> "MarkupError", ret |-> "none", attempts |-> 1,
          started |-> started]

\* run_command(command, description), the subprocess behaving as `proc`.
run_command(command, proc) ==
    IF ~MarkupOk(RunningLine(command))
    THEN [called |-> TRUE, raised |-> "MarkupError", ret |-> "none", attempts |-> 0,
          started |-> FALSE]
    ELSE IF proc.kind = "raises"
    THEN ExceptHandler(proc.message, FALSE)
    ELSE LET panels == Panels(proc)
             bad == {i \in 1..Len(panels) : ~MarkupOk(panels[i])}
         IN IF bad # {}
            THEN ExceptHandler(
                    MarkupErrorText(panels[CHOOSE i \in bad : \A j \in bad : i <= j]), TRUE)
            ELSE [called |-> TRUE, raised |-> "none",
                  ret |-> IF proc.rc = 0 THEN "True" ELSE "False",
                  attempts |-> 1, started |-> TRUE]

-----------------------------------------------------------------------------
(* agent_cli.py: the menus. An exception no handler catches ends the       *)
(* program: main_menu() is wrapped only in `except KeyboardInterrupt`.     *)

\* Choice "0": back to the main menu.
Back(menu) ==
    /\ cliLast' = Visit(menu, "0", NoText, "none", <<>>, NoProc, NoRun, FALSE)
    /\ cliPc' = "main"

\* The path check failed: print the message, wait for Enter, return.
NotFound(menu, choice, input, what) ==
    LET printed == MarkupOk(NotFoundLine(what, input)) IN
    /\ cliLast' = Visit(menu, choice, input, "missing", <<>>, NoProc, NoRun, ~printed)
    /\ cliPc' = IF printed THEN "main" ELSE "crashed"

\* run_command(command), then "Press Enter to continue..." and return to `backTo`.
RunAndReturn(menu, choice, input, checked, command, proc, backTo) ==
    LET run == run_command(command, proc) IN
    /\ cliLast' = Visit(menu, choice, input, checked, command,
                        IF run.attempts > 0 THEN proc ELSE NoProc, run,
                        run.raised # "none")
    /\ cliPc' = IF run.raised # "none" THEN "crashed" ELSE backTo

OutputFlag == Word("--output")
InputFlag == Word("--input")

menu_process_pdfs(choice, input, proc) ==
    /\ cliPc = "main"
    /\ LET menu == "menu_process_pdfs"
           output_file == Word("chunks.json")
           command == <<Word("python"), Word("-m"), Word("src.pdf_processor"),
                        InputFlag, input, OutputFlag, output_file>>
       IN CASE choice = "0" -> Back(menu)
            [] choice = "1" ->
                 IF ~PathExists(input) THEN NotFound(menu, choice, input, "File not found: ")
                 ELSE RunAndReturn(menu, choice, input, "found", command, proc, "main")
            [] choice = "2" ->
                 IF ~IsDir(input) THEN NotFound(menu, choice, input, "Directory not found: ")
                 ELSE RunAndReturn(menu, choice, input, "found", command, proc, "main")
            [] choice = "3" ->
                 RunAndReturn(menu, choice, input, "none", command, proc, "main")
    /\ UNCHANGED storeVars

menu_process_websites(choice, input, proc) ==
    /\ cliPc = "main"
    /\ LET menu == "menu_process_websites"
           output_file == Word("docs/web_content.json")
           command == <<Word("python"), Word("-m"), Word("src.web_processor"),
                        InputFlag, input, OutputFlag, output_file>>
       IN CASE choice = "0" -> Back(menu)
            [] choice = "1" ->
                 RunAndReturn(menu, choice, input, "none", command, proc, "main")
            [] choice = "2" ->
                 IF ~PathExists(input) THEN NotFound(menu, choice, input, "File not found: ")
                 ELSE RunAndReturn(menu, choice, input, "found", command, proc, "main")
    /\ UNCHANGED storeVars

menu_manage_vector_store(choice, input, proc) ==
    /\ cliPc = "main"
    /\ LET menu == "menu_manage_vector_store"
           store == <<Word("python"), Word("-m"), Word("src.store")>>
       IN CASE choice = "0" -> Back(menu)
            [] choice = "1" ->
                 IF ~PathExists(input) THEN NotFound(menu, choice, input, "File not found: ")
                 ELSE RunAndReturn(menu, choice, input, "found",
                                   store \o <<Word("--add"), input>>, proc, "main")
            [] choice = "2" ->
                 IF ~PathExists(input) THEN NotFound(menu, choice, input, "File not found: ")
                 ELSE RunAndReturn(menu, choice, input, "found",
                                   store \o <<Word("--add-web"), input>>, proc, "main")
            [] choice = "3" ->
                 RunAndReturn(menu, choice, input, "none",
                              store \o <<Word("--query"), input>>, proc, "main")
    /\ UNCHANGED storeVars

menu_test_oradb(choice, input, proc) ==
    /\ cliPc = "main"
    /\ LET menu == "menu_test_oradb"
           test == <<Word("python"), Word("tests/test_oradb.py")>>
       IN CASE choice = "0" -> Back(menu)
            [] choice = "1" ->
                 RunAndReturn(menu, choice, NoText, "none", test, proc, "main")
            [] choice = "2" ->
                 RunAndReturn(menu, choice, NoText, "none",
                              test \o <<Word("--stats-only")>>, proc, "main")
            [] choice = "3" ->
                 RunAndReturn(menu, choice, input, "none",
                              test \o <<Word("--query"), input>>, proc, "main")
    /\ UNCHANGED storeVars

\* main_menu choice "5": menu_rag_agent starts its loop.
enter_rag_agent ==
    /\ cliPc = "main"
    /\ cliLast' = Visit("main_menu", "5", NoText, "none", <<>>, NoProc, NoRun, FALSE)
    /\ cliPc' = "rag"
    /\ UNCHANGED storeVars

\* One round of menu_rag_agent's loop.
menu_rag_agent(query, use_cot, proc) ==
    /\ cliPc = "rag"
    /\ IF Lower(query) \in {Word("exit"), Word("quit"), Word("0")}
       THEN /\ cliLast' = Visit("menu_rag_agent", "exit", query, "none", <<>>, NoProc,
                                NoRun, FALSE)
            /\ cliPc' = "main"
       ELSE LET cmd == <<Word("python"), Word("-m"), Word("src.local_rag_agent"),
                         Word("--query"), query>>
                      \o (IF use_cot THEN <<Word("--use-cot")>> ELSE <<>>)
            IN RunAndReturn("menu_rag_agent", "query", query, "none", cmd, proc, "rag")
    /\ UNCHANGED storeVars

\* main_menu choice "0": sys.exit(0).
main_menu_exit ==
    /\ cliPc = "main"
    /\ cliLast' = Visit("main_menu", "0", NoText, "none", <<>>, NoProc, NoRun, FALSE)
    /\ cliPc' = "exited"
    /\ UNCHANGED storeVars

CliInit ==
    /\ configFile = DefaultConfigFile
    /\ phase = "new"
    /\ connectLog = <<>>
    /\ connection = "none"
    /\ embeddings = "none"
    /\ collections = EmptyMap
    /\ vector_stores = EmptyMap
    /\ tables = [t \in TableNames |-> <<>>]
    /\ nextId = 1
    /\ lastCall = NoCall
    /\ CliIdle
    /\ MainIdle

CliNext ==
    \/ \E choice \in {"0", "1", "2", "3"}, input \in Inputs, proc \in Procs :
            menu_process_pdfs(choice, input, proc) /\ UNCHANGED mainRun
    \/ \E choice \in {"0", "1", "2"}, input \in Inputs, proc \in Procs :
            menu_process_websites(choice, input, proc) /\ UNCHANGED mainRun
    \/ \E choice \in {"0", "1", "2", "3"}, input \in Inputs, proc \in Procs :
            menu_manage_vector_store(choice, input, proc) /\ UNCHANGED mainRun
    \/ \E choice \in {"0", "1", "2", "3"}, input \in Inputs, proc \in Procs :
            menu_test_oradb(choice, input, proc) /\ UNCHANGED mainRun
    \/ enter_rag_agent /\ UNCHANGED mainRun
    \/ \E query \in QueryInputs, use_cot \in BOOLEAN, proc \in Procs :
            menu_rag_agent(query, use_cot, proc) /\ UNCHANGED mainRun
    \/ main_menu_exit /\ UNCHANGED mainRun

CliSpec == CliInit /\ [][CliNext]_vars

-----------------------------------------------------------------------------
(* OraDBVectorStore.py: main(), run as `python -m src.OraDBVectorStore`.   *)

\* A JSON file named by --add or --add-web: its path and what open() and
\* json.load make of it (no such file, not JSON, or a list of chunks).
JsonFile(path, kind, chunks) ==
    [given |-> TRUE, path |-> path, kind |-> kind, chunks |-> chunks]

JsonFiles ==
    {JsonFile(Word("chunks.json"), "chunks", chunks) : chunks \in ChunkLists}
    \cup {JsonFile(Word("missing.json"), "missing", <<>>),
          JsonFile(Word("notes.txt"), "invalid", <<>>)}

FileArgs == {NoArg} \cup JsonFiles

\* The chunks an argument will insert if its step is reached.
ArgChunks(arg) == IF arg.given /\ arg.kind = "chunks" THEN Len(arg.chunks) ELSE 0

\* str(e) of the exceptions main() may catch.
MainErrorText(error, arg) ==
    CASE error = "ValueError" ->
            Word("Oracle DB credentials not found in config.yaml.")
      [] error = "AttributeError" -> Word("'list' object has no attribute 'get'")
      [] error = "DatabaseError" -> Word("DPY-6005: cannot connect to database")
      [] error = "FileNotFoundError" ->
            <<Txt("[Errno 2] No such file or directory: '")>> \o arg.path \o <<Txt("'")>>
      [] error = "JSONDecodeError" -> Word("Expecting value: line 1 column 1 (char 0)")
      [] OTHER -> Word(error)

\* A variant with a try/except around each step: a failed step is reported
\* and main() goes on to the next one.
MainAfterKeepGoing(step, raised) ==
    CASE step = "construct" -> IF raised THEN "except" ELSE "add"
      [] step = "add" -> "add_web"
      [] step = "add_web" -> "query_pdf"
      [] step = "query_pdf" -> "query_web"
      [] step = "query_web" -> IF raised THEN "except" ELSE "returned"

\* Where main() continues after `step`: in the except clause when the step
\* raised, else at the statement that follows it.
MainAfter(step, raised) ==
    IF raised THEN "except"
    ELSE CASE step = "construct" -> "add"
           [] step = "add" -> "add_web"
           [] step = "add_web" -> "query_pdf"
           [] step = "query_pdf" -> "query_web"
           [] step = "query_web" -> "returned"

\* main() has carried out `step`, which raised `error` or "none", and printed.
MainStepped(step, error, printed) ==
    [mainRun EXCEPT !.pc = MainAfter(step, error # "none"),
                    !.steps = Append(@, step),
                    !.error = error,
                    !.stdout = @ \o printed]

\* `if args.add:` and `if args.add_web:` are false: on to the next statement.
MainSkipped(step) == [mainRun EXCEPT !.pc = MainAfter(step, FALSE)]

\* parse_args(), then `store = OraDBVectorStore()`.
main_construct(add, add_web, query, connectOk) ==
    /\ mainRun.pc = "idle"
    /\ ArgChunks(add) + ArgChunks(add_web) <= MaxIds
    /\ Init__(FALSE, connectOk, TRUE)
    /\ mainRun' =
         [MainRun("idle", add, add_web, query, <<>>, "none", NoText, <<>>)
            EXCEPT !.pc = MainAfter("construct", lastCall'.raised # "none"),
                   !.steps = <<"construct">>,
                   !.error = lastCall'.raised,
                   !.stdout = IF connectLog' = <<>> THEN NoText
                              ELSE IF lastCall'.raised = "none"
                              THEN Word("Oracle DB Connection successful!")
                              ELSE Word("Oracle DB Connection failed!")]

\* if args.add: open, json.load, store.add_pdf_chunks, print
main_add ==
    /\ mainRun.pc = "add"
    /\ LET arg == mainRun.add IN
       IF ~arg.given
       THEN mainRun' = MainSkipped("add") /\ UNCHANGED <<storeVars, cliVars>>
       ELSE IF arg.kind = "missing"
       THEN /\ mainRun' = MainStepped("add", "FileNotFoundError", NoText)
            /\ UNCHANGED <<storeVars, cliVars>>
       ELSE IF arg.kind = "invalid"
       THEN /\ mainRun' = MainStepped("add", "JSONDecodeError", NoText)
            /\ UNCHANGED <<storeVars, cliVars>>
       ELSE /\ add_pdf_chunks(arg.chunks)
            /\ mainRun' = MainStepped("add", lastCall'.raised,
                    IF lastCall'.raised = "none" THEN Word("Added PDF chunks") ELSE NoText)

\* if args.add_web: open, json.load, store.add_web_chunks, print
main_add_web ==
    /\ mainRun.pc = "add_web"
    /\ LET arg == mainRun.add_web IN
       IF ~arg.given
       THEN mainRun' = MainSkipped("add_web") /\ UNCHANGED <<storeVars, cliVars>>
       ELSE IF arg.kind = "missing"
       THEN /\ mainRun' = MainStepped("add_web", "FileNotFoundError", NoText)
            /\ UNCHANGED <<storeVars, cliVars>>
       ELSE IF arg.kind = "invalid"
       THEN /\ mainRun' = MainStepped("add_web", "JSONDecodeError", NoText)
            /\ UNCHANGED <<storeVars, cliVars>>
       ELSE /\ add_web_chunks(arg.chunks)
            /\ mainRun' = MainStepped("add_web", lastCall'.raised,
                    IF lastCall'.raised = "none" THEN Word("Added web chunks") ELSE NoText)

\* if args.query: pdf_results = store.query_pdf_collection(args.query);
\* searchOk: whether similarity_search returns (nothing catches it in the store).
main_query_pdf(searchOk) ==
    /\ mainRun.pc = "query_pdf"
    /\ IF ~mainRun.query
       THEN mainRun' = [mainRun EXCEPT !.pc = "returned"] /\ UNCHANGED <<storeVars, cliVars>>
       ELSE IF ~searchOk
       THEN /\ mainRun' = MainStepped("query_pdf", "DatabaseError", NoText)
            /\ UNCHANGED <<storeVars, cliVars>>
       ELSE /\ query_public("query_pdf_collection", 3)
            /\ mainRun' = [MainStepped("query_pdf", "none", NoText)
                              EXCEPT !.pdf_results = lastCall'.ret.items]

\* web_results = store.query_web_collection(args.query), then both result
\* lists are printed.
main_query_web(searchOk) ==
    /\ mainRun.pc = "query_web"
    /\ IF ~searchOk
       THEN /\ mainRun' = MainStepped("query_web", "DatabaseError", NoText)
            /\ UNCHANGED <<storeVars, cliVars>>
       ELSE /\ query_public("query_web_collection", 3)
            /\ mainRun' = MainStepped("query_web", "none",
                    <<Txt("PDF Results:")>>
                    \o [i \in 1..Len(mainRun.pdf_results) |->
                            Txt(mainRun.pdf_results[i].content)]
                    \o <<Txt("Web Results:")>>
                    \o [i \in 1..Len(lastCall'.ret.items) |->
                            Txt(lastCall'.ret.items[i].content)])

\* except Exception as e: print(f"Error: {e}"); main() then returns.
main_except ==
    /\ mainRun.pc = "except"
    /\ LET step == mainRun.steps[Len(mainRun.steps)]
           arg == IF step = "add" THEN mainRun.add ELSE mainRun.add_web
       IN mainRun' = [mainRun EXCEPT
                        !.pc = "returned",
                        !.stdout = @ \o <<Txt("Error: ")>>
                                     \o MainErrorText(mainRun.error, arg)]
    /\ UNCHANGED <<storeVars, cliVars>>

\* The command line that starts main() with the arguments of the run.
MainCommand(run) ==
    <<Word("python"), Word("-m"), Word("src.OraDBVectorStore")>>
    \o (IF run.add.given THEN <<Word("--add"), run.add.path>> ELSE <<>>)
    \o (IF run.add_web.given THEN <<Word("--add-web"), run.add_web.path>> ELSE <<>>)
    \o (IF run.query THEN <<Word("--query"), Word("what is alpha")>> ELSE <<>>)

\* The process as subprocess.run sees it: main() returned, so the interpreter
\* exits with status 0 whatever main() caught.
MainProc(run) ==
    [kind |-> "exit", rc |-> 0, stdout |-> run.stdout, stderr |-> NoText]

\* agent_cli.py's run_command, given the finished process of main().
run_command_on_main ==
    /\ mainRun.pc = "returned"
    /\ cliPc = "main"
    /\ RunAndReturn("run_command", "", NoText, "none", MainCommand(mainRun),
                    MainProc(mainRun), "main")
    /\ mainRun' = [mainRun EXCEPT !.pc = "observed"]
    /\ UNCHANGED storeVars

MainInit ==
    /\ configFile \in {DefaultConfigFile, FileMissing}
    /\ phase = "new"
    /\ connectLog = <<>>
    /\ connection = "none"
    /\ embeddings = "none"
    /\ collections = EmptyMap
    /\ vector_stores = EmptyMap
    /\ tables = [t \in TableNames |-> <<>>]
    /\ nextId = 1
    /\ lastCall = NoCall
    /\ CliIdle
    /\ MainIdle

MainNext ==
    \/ \E add \in FileArgs, add_web \in FileArgs, query \in BOOLEAN, connectOk \in BOOLEAN :
            main_construct(add, add_web, query, connectOk)
    \/ main_add
    \/ main_add_web
    \/ \E searchOk \in BOOLEAN : main_query_pdf(searchOk)
    \/ \E searchOk \in BOOLEAN : main_query_web(searchOk)
    \/ main_except
    \/ run_command_on_main

MainSpec == MainInit /\ [][MainNext]_vars

-----------------------------------------------------------------------------
(* Vocabulary of the properties below, stated without the model's own     *)
(* operators: the table the documentation gives each collection, and the  *)
(* collection it gives each add method.                                    *)

DocumentedTable(name) ==
    CASE name = "pdf_documents" -> "PDFCollection"
      [] name = "web_documents" -> "WebCollection"
      [] name = "repository_documents" -> "RepoCollection"
      [] name = "general_knowledge" -> "GeneralCollection"

DocumentedNames ==
    {"pdf_documents", "web_documents", "repository_documents", "general_knowledge"}

DocumentedAddTarget(op) ==
    CASE op = "add_pdf_chunks" -> "pdf_documents"
      [] op = "add_web_chunks" -> "web_documents"
      [] op = "add_repo_chunks" -> "repository_documents"
      [] op = "add_general_knowledge" -> "general_knowledge"

Range(seq) == {seq[i] : i \in 1..Len(seq)}
LastN(seq, n) == SubSeq(seq, Len(seq) - n + 1, Len(seq))
AllRows == UNION {Range(tables[t]) : t \in DOMAIN tables}

\* The last call was an add method that returned normally after inserting.
AddedOk(call) == call.op \in AddOps /\ call.raised = "none" /\ call.chunks # <<>>

-----------------------------------------------------------------------------
\* C1: _sanitize_metadata keeps exactly the keys of its input; a str, int,
\* float or bool value is passed through unchanged, a list becomes its string
\* form, None becomes the empty string and any other value becomes its string
\* form; so every stored value is a scalar, and every chunk an add method
\* hands to the vector store carries only such sanitized metadata.
C1_SanitizedMetadata ==
    /\ \A row \in AllRows : \A k \in DOMAIN row.metadata :
            row.metadata[k].type \in {"str", "int", "float", "bool"}
    /\ AddedOk(lastCall) =>
        LET n == Len(lastCall.chunks)
            stored == LastN(tables[DocumentedTable(DocumentedAddTarget(lastCall.op))], n)
        IN \A i \in 1..n :
            LET given == lastCall.chunks[i].metadata
                out == stored[i].metadata
            IN /\ DOMAIN out = DOMAIN given
               /\ \A k \in DOMAIN given :
                    CASE given[k].type \in {"str", "int", "float", "bool"} ->
                            out[k] = given[k]
                      [] given[k].type = "list" ->
                            out[k] = [type |-> "str", s |-> PyToStr(given[k])]
                      [] given[k].type = "NoneType" ->
                            out[k] = [type |-> "str", s |-> ""]
                      [] OTHER ->
                            out[k] = [type |-> "str", s |-> PyToStr(given[k])]
    /\ \A row \in AllRows : row.text = "beta" =>
            /\ row.metadata.page_numbers = [type |-> "str", s |-> "[1, 2]"]
            /\ row.metadata.tags = [type |-> "str", s |-> "['x']"]
            /\ row.metadata.span = [type |-> "str", s |-> "(3,)"]
            /\ row.metadata.title = [type |-> "str", s |-> ""]

\* An add method stored a chunk whose metadata held a list, a None and a tuple,
\* next to one whose metadata held only scalars.
C1_Witness ==
    /\ AddedOk(lastCall)
    /\ lastCall.chunks = <<Chunk1, Chunk2>>
    /\ \E row \in AllRows : row.text = "beta" /\ row.metadata.title = PyStr("")
    /\ \E row \in AllRows : row.text = "alpha" /\ row.metadata.page = PyInt(1)

-----------------------------------------------------------------------------
\* C2: collections are isolated: a step changes the contents of at most the one
\* collection its call targets (each add method its own collection,
\* delete_documents its collection_name argument); query, count and
\* latest-chunk calls change no collection.
C2_CollectionsIsolated ==
    [][\A t \in DOMAIN tables :
          tables'[t] # tables[t] =>
              \/ /\ lastCall'.op \in AddOps
                 /\ t = DocumentedTable(DocumentedAddTarget(lastCall'.op))
              \/ /\ lastCall'.op = "delete_documents"
                 /\ lastCall'.collection_name \in DocumentedNames
                 /\ t = DocumentedTable(lastCall'.collection_name)]_storeVars

\* add_web_chunks has just inserted while the PDF collection held a row, which
\* it still holds.
C2_Witness ==
    /\ AddedOk(lastCall)
    /\ lastCall.op = "add_web_chunks"
    /\ Len(tables["WebCollection"]) = 1
    /\ Len(tables["PDFCollection"]) = 1

-----------------------------------------------------------------------------
\* C3: delete_documents on a known collection: with delete_all=True the
\* collection is empty afterwards, whatever ids is; with delete_all=False and a
\* non-empty ids list exactly the chunks with those ids are removed and every
\* other chunk remains; with delete_all=False and ids None or empty the
\* collection is unchanged. On an unknown collection_name it raises ValueError
\* and no collection changes.
C3_DeleteDocuments ==
    [][lastCall'.op = "delete_documents" =>
        LET call == lastCall' IN
        IF call.collection_name \in DocumentedNames
        THEN LET t == DocumentedTable(call.collection_name) IN
             /\ call.raised = "none"
             /\ call.delete_all => tables'[t] = <<>>
             /\ (~call.delete_all /\ call.ids.given /\ call.ids.ids # {}) =>
                    /\ Range(tables'[t]) = {r \in Range(tables[t]) : r.id \notin call.ids.ids}
                    /\ Len(tables'[t]) = Cardinality(Range(tables'[t]))
                    /\ \A i, j \in 1..Len(tables'[t]) :
                            i < j => tables'[t][i].id < tables'[t][j].id
             /\ (~call.delete_all /\ (~call.ids.given \/ call.ids.ids = {})) =>
                    tables'[t] = tables[t]
        ELSE /\ call.raised = "ValueError"
             /\ tables' = tables]_storeVars

\* delete_documents("pdf_documents", ids=[1]) has removed row 1 of two rows and
\* row 2 remains.
C3_Witness ==
    /\ lastCall.op = "delete_documents"
    /\ lastCall.collection_name = "pdf_documents"
    /\ ~lastCall.delete_all
    /\ lastCall.ids = [given |-> TRUE, ids |-> {1}]
    /\ Len(tables["PDFCollection"]) = 1
    /\ tables["PDFCollection"][1].id = 2

-----------------------------------------------------------------------------
\* C4: ingestion is append-only with no update in place: an add call with n
\* chunks appends exactly n new rows to its collection, in the order of the
\* input, text i paired with the sanitized metadata of chunk i; a stored row
\* keeps its text and metadata (and its collection) until delete_documents
\* removes it.
C4_AppendOnly ==
    [][/\ AddedOk(lastCall') =>
            LET t == DocumentedTable(DocumentedAddTarget(lastCall'.op))
                n == Len(lastCall'.chunks)
                new == LastN(tables'[t], n)
            IN /\ Len(tables'[t]) = Len(tables[t]) + n
               /\ SubSeq(tables'[t], 1, Len(tables[t])) = tables[t]
               /\ \A i \in 1..n :
                    /\ new[i].text = lastCall'.chunks[i].text
                    /\ new[i].metadata = sanitize_metadata(lastCall'.chunks[i].metadata)
                    /\ new[i].id \notin {r.id : r \in AllRows}
               /\ \A i, j \in 1..n : i # j => new[i].id # new[j].id
       /\ \A t \in DOMAIN tables : \A r \in Range(tables[t]) :
            \/ r \in Range(tables'[t])
            \/ /\ lastCall'.op = "delete_documents"
               /\ \A u \in DOMAIN tables : \A r2 \in Range(tables'[u]) : r2.id # r.id
      ]_storeVars

\* An add call has stored two different chunks, in the order given.
C4_Witness ==
    /\ AddedOk(lastCall)
    /\ lastCall.op = "add_repo_chunks"
    /\ lastCall.chunks = <<Chunk2, Chunk1>>
    /\ Len(tables["RepoCollection"]) = 2
    /\ tables["RepoCollection"][1].text = "beta"
    /\ tables["RepoCollection"][2].text = "alpha"

-----------------------------------------------------------------------------
\* config.yaml gives `key` a non-empty value.
Configured(key) ==
    /\ configFile.kind = "document"
    /\ configFile.doc.type = "dict"
    /\ key \in DOMAIN configFile.doc.d
    /\ configFile.doc.d[key] # [type |-> "str", s |-> ""]

\* C5: constructing the store when the loaded configuration has no (or an
\* empty) ORACLE_DB_PASSWORD or ORACLE_DB_DSN, config.yaml missing, empty or
\* unreadable included, raises ValueError before any connection is attempted,
\* and no vector-store handle is registered.
C5_MissingCredentialsRaiseValueError ==
    (lastCall.op = "__init__"
        /\ ~(Configured("ORACLE_DB_PASSWORD") /\ Configured("ORACLE_DB_DSN")))
    => /\ lastCall.raised = "ValueError"
       /\ connectLog = <<>>
       /\ vector_stores = EmptyMap

-----------------------------------------------------------------------------
\* C6: with a password and a DSN the constructor makes exactly one connection
\* attempt, with config_dir, wallet_location and wallet_password exactly when
\* ORACLE_DB_WALLET_LOCATION is configured and non-empty; if the attempt fails
\* the exception propagates, no second path is tried, and no embeddings or
\* collection handles are created.
C6_OneConnectionAttempt ==
    (lastCall.op = "__init__"
        /\ Configured("ORACLE_DB_PASSWORD") /\ Configured("ORACLE_DB_DSN"))
    => /\ Len(connectLog) = 1
       /\ connectLog[1].password = configFile.doc.d["ORACLE_DB_PASSWORD"]
       /\ connectLog[1].dsn = configFile.doc.d["ORACLE_DB_DSN"]
       /\ IF Configured("ORACLE_DB_WALLET_LOCATION")
          THEN /\ DOMAIN connectLog[1] =
                    {"wallet", "user", "password", "dsn",
                     "config_dir", "wallet_location", "wallet_password"}
               /\ connectLog[1].config_dir = configFile.doc.d["ORACLE_DB_WALLET_LOCATION"]
               /\ connectLog[1].wallet_location = configFile.doc.d["ORACLE_DB_WALLET_LOCATION"]
               /\ connectLog[1].wallet_password =
                    IF "ORACLE_DB_WALLET_PASSWORD" \in DOMAIN configFile.doc.d
                    THEN configFile.doc.d["ORACLE_DB_WALLET_PASSWORD"]
                    ELSE [type |-> "NoneType"]
          ELSE DOMAIN connectLog[1] = {"wallet", "user", "password", "dsn"}
       /\ lastCall.raised = "DatabaseError" =>
            /\ phase = "failed"
            /\ connection = "none"
            /\ embeddings = "none"
            /\ collections = EmptyMap
            /\ vector_stores = EmptyMap

\* The one attempt took the wallet path and failed.
C6_Witness ==
    /\ lastCall.op = "__init__"
    /\ lastCall.raised = "DatabaseError"
    /\ Len(connectLog) = 1
    /\ connectLog[1].wallet
    /\ connectLog[1].wallet_password = PyStr("wsecret")

-----------------------------------------------------------------------------
\* C7: after a successful construction the store has exactly the four
\* collections, each bound to its own table and its own vector-store handle,
\* and no later operation adds, removes or rebinds a collection.
C7_FourCollections ==
    /\ [](phase = "constructed" =>
            /\ DOMAIN collections = DocumentedNames
            /\ DOMAIN vector_stores = DocumentedNames
            /\ \A n \in DocumentedNames :
                    /\ collections[n] = DocumentedTable(n)
                    /\ vector_stores[n].handle.table_name = DocumentedTable(n)
            /\ \A a, b \in DocumentedNames : a # b =>
                    /\ collections[a] # collections[b]
                    /\ vector_stores[a].obj # vector_stores[b].obj
                    /\ vector_stores[a].handle.table_name # vector_stores[b].handle.table_name)
    /\ [][phase = "constructed" =>
            /\ phase' = "constructed"
            /\ collections' = collections
            /\ vector_stores' = vector_stores]_storeVars

\* A constructed store after rows were added and a collection was truncated.
C7_Witness ==
    /\ phase = "constructed"
    /\ lastCall.op = "delete_documents"
    /\ lastCall.delete_all
    /\ lastCall.raised = "none"
    /\ nextId > 1
    /\ Cardinality(DOMAIN vector_stores) = 4

-----------------------------------------------------------------------------
\* C8: get_latest_chunk returns the content and metadata of the chunk added
\* last among those still stored in the collection; it returns an empty
\* mapping when the collection is empty or unknown or the query fails.
C8_LatestChunkIsLastAdded ==
    lastCall.op = "get_latest_chunk" =>
        IF lastCall.collection_name \notin DocumentedNames
        THEN lastCall.ret.kind = "empty_dict"
        ELSE LET rows == tables[DocumentedTable(lastCall.collection_name)] IN
             IF rows = <<>>
             THEN lastCall.ret.kind = "empty_dict"
             ELSE \/ lastCall.ret.kind = "empty_dict"      \* the query failed
                  \/ /\ lastCall.ret.kind = "dict"
                     /\ lastCall.ret.content = rows[Len(rows)].text
                     /\ lastCall.ret.metadata = rows[Len(rows)].metadata

-----------------------------------------------------------------------------
\* The menu options that ask for a local input file or directory.
AsksForPath(visit) ==
    \/ visit.menu = "menu_process_pdfs" /\ visit.choice \in {"1", "2"}
    \/ visit.menu = "menu_process_websites" /\ visit.choice = "2"
    \/ visit.menu = "menu_manage_vector_store" /\ visit.choice \in {"1", "2"}

\* The check the option makes on the entered path: a directory for the PDF
\* directory option, any existing path for the others.
PathAccepted(visit) ==
    IF visit.menu = "menu_process_pdfs" /\ visit.choice = "2"
    THEN visit.input \in ExistingDirs
    ELSE visit.input \in ExistingFiles \cup ExistingDirs

\* C9: in every menu path that asks for a local file or directory a
\* subprocess is launched only if the entered path exists (is a directory, for
\* the directory option); when it does not, no command is run and control
\* returns to the main menu. A menu choice of 0 likewise returns to the main
\* menu without running any command.
C9_PathValidatedBeforeRun ==
    /\ AsksForPath(cliLast) =>
        /\ cliLast.run.attempts > 0 => PathAccepted(cliLast)
        /\ ~PathAccepted(cliLast) =>
            /\ ~cliLast.run.called
            /\ cliLast.run.attempts = 0
            /\ cliPc = "main"
    /\ (cliLast.choice = "0" /\ cliLast.menu \notin {"none", "main_menu"}) =>
        /\ ~cliLast.run.called
        /\ cliPc = "main"

-----------------------------------------------------------------------------
\* C10: run_command never raises to its caller; it returns True if and only
\* if the subprocess was started and exited with return code 0, False when
\* the subprocess exits non-zero and when launching it raises; each call
\* launches the subprocess at most once.
C10_RunCommandHandlesErrors ==
    cliLast.run.called =>
        /\ cliLast.run.raised = "none"
        /\ cliLast.run.attempts <= 1
        /\ cliLast.run.ret \in {"True", "False"}
        /\ cliLast.run.ret = "True" <=>
                (cliLast.run.started /\ cliLast.proc.kind = "exit" /\ cliLast.proc.rc = 0)

-----------------------------------------------------------------------------
\* C11: get_collection_count never raises and returns an integer: the number
\* of chunks now stored in the collection's table when the collection is known
\* and the count query succeeds, whatever adds and deletes came before; 0 when
\* the name is unknown, and 0 when the count query fails.
C11_CollectionCount ==
    lastCall.op = "get_collection_count" =>
        /\ lastCall.raised = "none"
        /\ lastCall.ret.kind = "int"
        /\ IF lastCall.collection_name \notin DocumentedNames
           THEN lastCall.ret.query = "skipped" /\ lastCall.ret.n = 0
           ELSE \/ /\ lastCall.ret.query = "ok"
                   /\ lastCall.ret.n =
                        Len(tables[DocumentedTable(lastCall.collection_name)])
                \/ /\ lastCall.ret.query = "failed"
                   /\ lastCall.ret.n = 0

\* A count of a collection that holds one chunk after two were added and one
\* deleted, while a failed count of the same table would have returned 0.
C11_Witness ==
    /\ lastCall.op = "get_collection_count"
    /\ lastCall.collection_name = "web_documents"
    /\ lastCall.ret.query = "ok"
    /\ lastCall.ret.n = 1
    /\ Len(tables["WebCollection"]) = 1
    /\ nextId = 3

-----------------------------------------------------------------------------
\* C12: the helpers treat an unknown collection differently, and the test for
\* an empty chunk list comes first: _add_chunks_to_collection with an empty
\* list returns without error and inserts nothing, even under an unknown name;
\* with a non-empty list and an unknown name it raises ValueError and inserts
\* nothing; _query_collection under an unknown name returns an empty list and
\* does not raise; in each of these cases no collection's contents change.
C12_UnknownCollection ==
    [][LET call == lastCall' IN
       /\ (call.op = "_add_chunks_to_collection" /\ call.chunks = <<>>) =>
            /\ call.raised = "none"
            /\ tables' = tables
       /\ (/\ call.op = "_add_chunks_to_collection"
           /\ call.chunks # <<>>
           /\ call.collection_name \notin DocumentedNames) =>
            /\ call.raised = "ValueError"
            /\ tables' = tables
       /\ (/\ call.op = "_query_collection"
           /\ call.collection_name \notin DocumentedNames) =>
            /\ call.raised = "none"
            /\ call.ret = [kind |-> "list", items |-> <<>>]
            /\ tables' = tables
      ]_storeVars

\* _add_chunks_to_collection([], "unknown_collection") has returned normally
\* on a store that holds a chunk.
C12_Witness ==
    /\ lastCall.op = "_add_chunks_to_collection"
    /\ lastCall.collection_name = "unknown_collection"
    /\ lastCall.chunks = <<>>
    /\ lastCall.raised = "none"
    /\ Len(tables["PDFCollection"]) = 1

-----------------------------------------------------------------------------
\* The steps a run of main() was asked for, in the documented order.
Requested(run) ==
    <<"construct">>
    \o (IF run.add.given THEN <<"add">> ELSE <<>>)
    \o (IF run.add_web.given THEN <<"add_web">> ELSE <<>>)
    \o (IF run.query THEN <<"query_pdf", "query_web">> ELSE <<>>)

IsPrefix(s, t) == Len(s) <= Len(t) /\ SubSeq(t, 1, Len(s)) = s

\* The file of an argument cannot be loaded.
Unloadable(arg) == arg.given /\ arg.kind # "chunks"

\* The texts a table holds, and the texts of an argument's chunks.
TextsOf(rows) == [i \in 1..Len(rows) |-> rows[i].text]
ArgTexts(arg) == [i \in 1..Len(arg.chunks) |-> arg.chunks[i].text]

\* C13: main() carries out the requested steps in the order --add (into
\* pdf_documents), --add-web (into web_documents), --query (PDF collection,
\* then web collection). When the construction or a step raises, the error is
\* printed, no later step is begun, what earlier steps inserted stays stored,
\* and main() returns all the same: the process exits with status 0 and
\* run_command returns True for it.
C13_MainStopsAtFirstError ==
    /\ IsPrefix(mainRun.steps, Requested(mainRun))
    /\ mainRun.pc \in {"returned", "observed"} =>
        LET steps == mainRun.steps
            failed == mainRun.error # "none"
            done(step) == \E i \in 1..Len(steps) :
                            steps[i] = step /\ (i < Len(steps) \/ ~failed)
        IN
        /\ ~failed => steps = Requested(mainRun)
        /\ failed => \E i \in 1..Len(mainRun.stdout) : mainRun.stdout[i] = Txt("Error: ")
        /\ phase # "constructed" => failed /\ steps = <<"construct">>
        /\ (phase = "constructed" /\ Unloadable(mainRun.add)) =>
                failed /\ steps = <<"construct", "add">>
        /\ (phase = "constructed" /\ ~Unloadable(mainRun.add)
                                  /\ Unloadable(mainRun.add_web)) =>
                /\ failed
                /\ steps[Len(steps)] = "add_web"
                /\ mainRun.add.given => done("add")
        /\ TextsOf(tables["PDFCollection"]) =
                IF done("add") THEN ArgTexts(mainRun.add) ELSE <<>>
        /\ TextsOf(tables["WebCollection"]) =
                IF done("add_web") THEN ArgTexts(mainRun.add_web) ELSE <<>>
    /\ mainRun.pc = "observed" =>
        /\ cliLast.proc.kind = "exit"
        /\ cliLast.proc.rc = 0
        /\ cliLast.run.raised = "none"
        /\ cliLast.run.ret = "True"

\* main() inserted a PDF chunk, failed to open the --add-web file, skipped the
\* query it was asked for and returned; run_command returned True for it.
C13_Witness ==
    /\ mainRun.pc = "observed"
    /\ mainRun.steps = <<"construct", "add", "add_web">>
    /\ mainRun.query
    /\ mainRun.error = "FileNotFoundError"
    /\ Len(tables["PDFCollection"]) = 1
    /\ tables["WebCollection"] = <<>>
    /\ cliLast.run.ret = "True"

====
